---- MODULE Spec2Model ----
(***************************************************************************)
(* A model of ScratchImplementation.ipynb: the Conv2D, MaxPooling2D and    *)
(* Dense layers, softmax / cross-entropy, and the forward / train driver.  *)
(*                                                                         *)
(* Numbers.  A float64 is modelled as one of                               *)
(*     <<"fin", n>>   the finite value n / Scale (binary floating point is *)
(*                    replaced by fixed point with quantum 1 / Scale;      *)
(*                    multiplication and division round to the grid),      *)
(*     <<"inf", 1>>, <<"inf", -1>>   the two infinities,                   *)
(*     <<"nan", 0>>   not-a-number,                                        *)
(* with the IEEE 754 rules for the special values, which is what numpy     *)
(* computes with.  Indices are 0-based as in Python.                       *)
(***************************************************************************)
EXTENDS Integers, Sequences, FiniteSets, TLC

VARIABLES conv, pool, dense, call, ncalls

vars == <<conv, pool, dense, call, ncalls>>

(***************************************************************************)
(* Bounds of the model.                                                    *)
(***************************************************************************)
Scale == 4
MaxH == 4
MaxChannels == 3
MaxFilters == 2
MaxFilterSize == 3
MaxSeed == 2
MaxPool == 3
MaxPoolH == 5
MaxDenseLen == 4
MaxNodes == 3
MaxTrainFilters == 1
TrainFilterSize == 2
ImgSide == 3
MaxLabel == 2
MaxCalls == 2

(***************************************************************************)
(* Program constants.                                                      *)
(***************************************************************************)
IMG_CHANNELS == 3
PoolSize == 2
NumClasses == 2

(***************************************************************************)
(* float64 arithmetic.                                                     *)
(***************************************************************************)
Fin(n) == <<"fin", n>>
PosInf == <<"inf", 1>>
NegInf == <<"inf", -1>>
NaN == <<"nan", 0>>

IsNaN(x) == x[1] = "nan"
IsInf(x) == x[1] = "inf"
IsFin(x) == x[1] = "fin"
IsZero(x) == x = Fin(0)

Sign(n) == IF n > 0 THEN 1 ELSE IF n < 0 THEN -1 ELSE 0

\* n / d for d > 0, rounded to the nearest integer.
RoundDiv(n, d) == (2 * n + d) \div (2 * d)

FNeg(x) == IF IsNaN(x) THEN NaN ELSE <<x[1], -x[2]>>

FAdd(x, y) ==
    IF IsNaN(x) \/ IsNaN(y) THEN NaN
    ELSE IF IsInf(x) THEN (IF IsInf(y) /\ y # x THEN NaN ELSE x)
    ELSE IF IsInf(y) THEN y
    ELSE Fin(x[2] + y[2])

FSub(x, y) == FAdd(x, FNeg(y))

FMul(x, y) ==
    IF IsNaN(x) \/ IsNaN(y) THEN NaN
    ELSE IF IsInf(x) \/ IsInf(y)
         THEN (IF IsZero(x) \/ IsZero(y) THEN NaN
               ELSE <<"inf", Sign(x[2]) * Sign(y[2])>>)
    ELSE Fin(RoundDiv(x[2] * y[2], Scale))

FDiv(x, y) ==
    IF IsNaN(x) \/ IsNaN(y) THEN NaN
    ELSE IF IsInf(x) THEN (IF IsInf(y) THEN NaN
                           ELSE <<"inf", x[2] * (IF y[2] < 0 THEN -1 ELSE 1)>>)
    ELSE IF IsInf(y) THEN Fin(0)
    ELSE IF y[2] = 0 THEN (IF x[2] = 0 THEN NaN ELSE <<"inf", Sign(x[2])>>)
    ELSE Fin(Sign(y[2]) * RoundDiv(x[2] * Scale, Sign(y[2]) * y[2]))

\* x < y on non-NaN values
FLess(x, y) ==
    IF IsInf(x) THEN x[2] = -1 /\ y # x
    ELSE IF IsInf(y) THEN y[2] = 1
    ELSE x[2] < y[2]

\* the maximum as np.amax / np.max take it: NaN propagates
FMax(x, y) ==
    IF IsNaN(x) \/ IsNaN(y) THEN NaN
    ELSE IF FLess(x, y) THEN y ELSE x

\* ==: NaN equals nothing, not even itself
FEq(x, y) == ~IsNaN(x) /\ ~IsNaN(y) /\ x = y

\* np.sum of the values v[0], ..., v[n-1]
RECURSIVE FSum(_, _)
FSum(v, n) == IF n = 0 THEN Fin(0) ELSE FAdd(FSum(v, n - 1), v[n - 1])

\* np.amax of the values v[0], ..., v[n-1], n >= 1
RECURSIVE FAmax(_, _)
FAmax(v, n) == IF n = 1 THEN v[0] ELSE FMax(FAmax(v, n - 1), v[n - 1])

(***************************************************************************)
(* Arrays.  A rank-3 array is [h, w, c, at], a rank-4 filter bank is       *)
(* [n, f, c, at], a matrix is [rows, cols, at], a vector is [n, at].       *)
(***************************************************************************)
Idx3(h, w, c) == (0 .. (h - 1)) \X (0 .. (w - 1)) \X (0 .. (c - 1))

\* f itself, built once as an explicit table (an array is a buffer of values,
\* not a formula evaluated again at every read)
Stored(f) == f @@ <<>>

\* the one element of a singleton set: Only({ e(x) : x \in {v} }) is e(v)
\* with v computed once
Only(S) == CHOOSE r \in S : TRUE

NoArray == [h |-> -1, w |-> -1, c |-> -1, at |-> <<>>]

\* np.zeros((h, w, c))
Zeros3(h, w, c) ==
    [h |-> h, w |-> w, c |-> c, at |-> [p \in Idx3(h, w, c) |-> Fin(0)]]

Size3(x) == x.h * x.w * x.c

(***************************************************************************)
(* Conv2D                                                                  *)
(***************************************************************************)
\* numpy broadcasting of a region's channel axis against the filters'
Broadcastable(c, fc) == c = fc \/ c = 1 \/ fc = 1

BroadcastChannels(c, fc) == IF c = 1 THEN fc ELSE c

\* iterate_regions: the (i, j) of the windows, none when new_h or new_w <= 0
ConvRegions(filter_size, image) ==
    (0 .. (image.h - filter_size)) \X (0 .. (image.w - filter_size))

\* a convolution that flips the kernel (true convolution, not cross-correlation)
ConvWindowSumFlipped(self, image, i, j, f) ==
    LET F == self.filter_size
        CH == BroadcastChannels(image.c, self.filters.c)
        term == [k \in 0 .. (F * F * CH - 1) |->
                   LET a == k \div (F * CH)
                       b == (k \div CH) % F
                       ch == k % CH
                   IN FMul(image.at[<<i + a, j + b, IF image.c = 1 THEN 0 ELSE ch>>],
                           self.filters.at[<<f, F - 1 - a, F - 1 - b,
                                             IF self.filters.c = 1 THEN 0 ELSE ch>>])]
    IN FSum(term, F * F * CH)

\* np.sum(region * self.filters, axis=(1, 2, 3))[f] for the region at (i, j)
ConvWindowSum(self, image, i, j, f) ==
    LET F == self.filter_size
        CH == BroadcastChannels(image.c, self.filters.c)
        term == [k \in 0 .. (F * F * CH - 1) |->
                   LET a == k \div (F * CH)
                       b == (k \div CH) % F
                       ch == k % CH
                   IN FMul(image.at[<<i + a, j + b, IF image.c = 1 THEN 0 ELSE ch>>],
                           self.filters.at[<<f, a, b,
                                             IF self.filters.c = 1 THEN 0 ELSE ch>>])]
    IN FSum(term, F * F * CH)

\* a forward that rejects every empty output, not only a negative dimension
ConvForwardRaisesOnEmpty(self, image) ==
    \/ image.h - self.filter_size + 1 <= 0
    \/ image.w - self.filter_size + 1 <= 0
    \/ ~Broadcastable(image.c, self.filters.c)

\* Conv2D.forward raises: np.zeros on a negative dimension, or the product of
\* the first region with filters whose channel axis does not broadcast
ConvForwardRaises(self, image) ==
    \/ image.h - self.filter_size + 1 < 0
    \/ image.w - self.filter_size + 1 < 0
    \/ /\ ConvRegions(self.filter_size, image) # {}
       /\ ~Broadcastable(image.c, self.filters.c)

\* the array Conv2D.forward returns when it does not raise
ConvForwardOut(self, image) ==
    LET nh == image.h - self.filter_size + 1
        nw == image.w - self.filter_size + 1
    IN [h |-> nh, w |-> nw, c |-> self.num_filters,
        at |-> Stored([p \in Idx3(nh, nw, self.num_filters) |->
                         ConvWindowSum(self, image, p[1], p[2], p[3])])]

\* Conv2D.backward raises: d_L_d_filters[f] += ... * region with a region whose
\* channel axis does not broadcast into the filter's
ConvBackwardRaises(self, d_out) ==
    /\ ConvRegions(self.filter_size, self.last_input) # {}
    /\ self.last_input.c # self.filters.c
    /\ self.last_input.c # 1

\* d_L_d_filters: the sum over the regions (i, j) of d_L_d_out[i, j, f] * region
ConvFilterGradient(self, d_out) ==
    LET x == self.last_input
        nh == x.h - self.filter_size + 1
        nw == x.w - self.filter_size + 1
    IN [q \in DOMAIN self.filters.at |->
          FSum([k \in 0 .. (nh * nw - 1) |->
                  FMul(d_out.at[<<k \div nw, k % nw, q[1]>>],
                       x.at[<<(k \div nw) + q[2], (k % nw) + q[3],
                              IF x.c = 1 THEN 0 ELSE q[4]>>])],
               IF nh > 0 /\ nw > 0 THEN nh * nw ELSE 0)]

\* self.filters -= learn_rate * d_L_d_filters
ConvUpdated(self, d_out, lr) ==
    [self EXCEPT !.filters.at =
       Stored([q \in DOMAIN self.filters.at |->
                 FSub(self.filters.at[q], FMul(lr, ConvFilterGradient(self, d_out)[q]))])]

\* Conv2D.__init__ with the random draw of the filters given by the table
\* init; channels is IMG_CHANNELS
Conv2DInit(num_filters, filter_size, channels, init) ==
    [num_filters |-> num_filters,
     filter_size |-> filter_size,
     filters |-> [n |-> num_filters, f |-> filter_size, c |-> channels,
                  at |-> Stored([q \in (0 .. (num_filters - 1)) \X (0 .. (filter_size - 1))
                                         \X (0 .. (filter_size - 1)) \X (0 .. (channels - 1))
                                 |-> init[q]])],
     last_input |-> NoArray]

(***************************************************************************)
(* MaxPooling2D                                                            *)
(***************************************************************************)
\* iterate_regions: the (i, j) of the pooling windows
PoolRegions(pool_size, image) ==
    (0 .. ((image.h \div pool_size) - 1)) \X (0 .. ((image.w \div pool_size) - 1))

\* a pooling whose windows overlap (stride 1 in place of pool_size)
PoolWindowMaxStride1(pool_size, image, i, j, n) ==
    FAmax([k \in 0 .. (pool_size * pool_size - 1) |->
             image.at[<<i + (k \div pool_size), j + (k % pool_size), n>>]],
          pool_size * pool_size)

\* np.amax(region, axis=(0, 1))[n] for the region of window (i, j)
PoolWindowMax(pool_size, image, i, j, n) ==
    FAmax([k \in 0 .. (pool_size * pool_size - 1) |->
             image.at[<<i * pool_size + (k \div pool_size),
                        j * pool_size + (k % pool_size), n>>]],
          pool_size * pool_size)

\* the array MaxPooling2D.forward returns
PoolForwardOut(self, input) ==
    LET P == self.pool_size
    IN [h |-> input.h \div P, w |-> input.w \div P, c |-> input.c,
        at |-> Stored([p \in Idx3(input.h \div P, input.w \div P, input.c) |->
                         PoolWindowMax(P, input, p[1], p[2], p[3])])]

\* MaxPooling2D.backward raises when d_L_d_out[i, j, f2] is out of bounds
PoolBackwardRaises(self, d_out) ==
    LET x == self.last_input
        P == self.pool_size
    IN /\ PoolRegions(P, x) # {}
       /\ \/ d_out.h < x.h \div P
          \/ d_out.w < x.w \div P
          \/ d_out.c < x.c

\* a backward that routes the gradient to the first maximum of a window only
PoolBackwardOutFirstMax(self, d_out) ==
    LET x == self.last_input
        P == self.pool_size
        first(i, j, n) ==
            CHOOSE k \in 0 .. (P * P - 1) :
              /\ FEq(x.at[<<i * P + (k \div P), j * P + (k % P), n>>],
                     PoolWindowMax(P, x, i, j, n))
              /\ \A k2 \in 0 .. (k - 1) :
                    ~FEq(x.at[<<i * P + (k2 \div P), j * P + (k2 % P), n>>],
                         PoolWindowMax(P, x, i, j, n))
    IN [h |-> x.h, w |-> x.w, c |-> x.c,
        at |-> Stored([p \in Idx3(x.h, x.w, x.c) |->
                  LET i == p[1] \div P
                      j == p[2] \div P
                  IN IF /\ i < x.h \div P
                        /\ j < x.w \div P
                        /\ FEq(x.at[p], PoolWindowMax(P, x, i, j, p[3]))
                        /\ first(i, j, p[3]) = (p[1] % P) * P + (p[2] % P)
                     THEN d_out.at[<<i, j, p[3]>>]
                     ELSE Fin(0)])]

\* the array MaxPooling2D.backward returns: d_L_d_out[i, j, f2] at every
\* position of window (i, j) whose value == the window's amax, zeros elsewhere
PoolBackwardOut(self, d_out) ==
    LET x == self.last_input
        P == self.pool_size
    IN [h |-> x.h, w |-> x.w, c |-> x.c,
        at |-> Stored([p \in Idx3(x.h, x.w, x.c) |->
                  LET i == p[1] \div P
                      j == p[2] \div P
                  IN IF /\ i < x.h \div P
                        /\ j < x.w \div P
                        /\ FEq(x.at[p], PoolWindowMax(P, x, i, j, p[3]))
                     THEN d_out.at[<<i, j, p[3]>>]
                     ELSE Fin(0)])]

\* MaxPooling2D.__init__
MaxPooling2DInit(pool_size) == [pool_size |-> pool_size, last_input |-> NoArray]

(***************************************************************************)
(* Dense                                                                   *)
(***************************************************************************)
NoVector == [n |-> -1, at |-> <<>>]

\* input.flatten(): row-major order
Flatten(x) ==
    [n |-> Size3(x),
     at |-> Stored([k \in 0 .. (Size3(x) - 1) |->
                      x.at[<<k \div (x.w * x.c), (k \div x.c) % x.w, k % x.c>>]])]

\* v.reshape(shape) for a vector of the shape's size
Reshape(v, shape) ==
    [h |-> shape[1], w |-> shape[2], c |-> shape[3],
     at |-> Stored([p \in Idx3(shape[1], shape[2], shape[3]) |->
                      v.at[(p[1] * shape[2] + p[2]) * shape[3] + p[3]]])]

\* Dense.forward raises: np.dot of a vector whose length is not input_len
DenseForwardRaises(self, input) == Size3(input) # self.weights.rows

\* totals that leave the biases out
DenseTotalsNoBias(self, v) ==
    [n |-> self.weights.cols,
     at |-> Stored([c \in 0 .. (self.weights.cols - 1) |->
                      FSum([k \in 0 .. (self.weights.rows - 1) |->
                              FMul(v.at[k], self.weights.at[<<k, c>>])],
                           self.weights.rows)])]

\* np.dot(input, self.weights) + self.biases
DenseTotals(self, v) ==
    [n |-> self.weights.cols,
     at |-> Stored([c \in 0 .. (self.weights.cols - 1) |->
                      FAdd(FSum([k \in 0 .. (self.weights.rows - 1) |->
                                   FMul(v.at[k], self.weights.at[<<k, c>>])],
                                self.weights.rows),
                           self.biases.at[c])])]

\* the layer after Dense.forward has stored what it retains; a raising call
\* has stored last_input_shape and last_input, not last_totals
DenseAfterForward(self, input) ==
    Only({ IF DenseForwardRaises(self, input)
           THEN [self EXCEPT !.last_input_shape = <<input.h, input.w, input.c>>,
                             !.last_input = flat]
           ELSE [self EXCEPT !.last_input_shape = <<input.h, input.w, input.c>>,
                             !.last_input = flat,
                             !.last_totals = DenseTotals(self, flat)]
           : flat \in {Flatten(input)} })

\* Dense.backward raises: np.dot(self.weights, d_L_d_t) of mismatched lengths
DenseBackwardRaises(self, d_out) == d_out.n # self.weights.cols

\* d_L_d_w = np.dot(d_t_d_w[:, np.newaxis], d_L_d_t[np.newaxis, :])
DenseWeightGradient(self, d_out) ==
    [q \in (0 .. (self.last_input.n - 1)) \X (0 .. (d_out.n - 1)) |->
       FMul(self.last_input.at[q[1]], d_out.at[q[2]])]

\* d_L_d_inputs = np.dot(d_t_d_inputs, d_L_d_t) with d_t_d_inputs the weights w
DenseInputGradient(w, d_out) ==
    [n |-> w.rows,
     at |-> Stored([k \in 0 .. (w.rows - 1) |->
                      FSum([c \in 0 .. (w.cols - 1) |-> FMul(w.at[<<k, c>>], d_out.at[c])],
                           w.cols)])]

\* self.weights -= learn_rate * d_L_d_w; self.biases -= learn_rate * d_L_d_b
DenseUpdated(self, d_out, lr) ==
    LET d_L_d_w == DenseWeightGradient(self, d_out)
        d_L_d_b == [c \in 0 .. (d_out.n - 1) |-> FMul(d_out.at[c], Fin(Scale))]
    IN [self EXCEPT
          !.weights.at = Stored([q \in DOMAIN self.weights.at |->
                                   FSub(self.weights.at[q], FMul(lr, d_L_d_w[q]))]),
          !.biases.at = Stored([c \in DOMAIN self.biases.at |->
                                  FSub(self.biases.at[c], FMul(lr, d_L_d_b[c]))])]

\* a backward that updates the weights before it multiplies them by d_out
DenseBackwardUpdateFirst(self, d_out, lr) ==
    IF DenseBackwardRaises(self, d_out)
    THEN [raised |-> TRUE, self |-> self]
    ELSE Only({ [raised |-> FALSE,
                 self |-> new,
                 ret |-> Reshape(DenseInputGradient(new.weights, d_out),
                                 self.last_input_shape)]
                : new \in {DenseUpdated(self, d_out, lr)} })

\* a backward that updates the parameters before the product that can raise
DenseBackwardUpdateBeforeRaise(self, d_out, lr) ==
    IF DenseBackwardRaises(self, d_out)
    THEN [raised |-> TRUE,
          self |-> [self EXCEPT
                      !.biases.at = [c \in DOMAIN self.biases.at |->
                                       FSub(self.biases.at[c], lr)]]]
    ELSE [raised |-> FALSE,
          self |-> DenseUpdated(self, d_out, lr),
          ret |-> Reshape(DenseInputGradient(self.weights, d_out), self.last_input_shape)]

\* Dense.backward: the products first (the second one raises on a d_out of
\* the wrong length), then the in-place updates, then the reshaped gradient
DenseBackward(self, d_out, lr) ==
    IF DenseBackwardRaises(self, d_out)
    THEN [raised |-> TRUE, self |-> self]
    ELSE [raised |-> FALSE,
          self |-> DenseUpdated(self, d_out, lr),
          ret |-> Reshape(DenseInputGradient(self.weights, d_out), self.last_input_shape)]

\* Dense.__init__ with the random draw of the weights given by the table init
DenseInit(input_len, nodes, init) ==
    [weights |-> [rows |-> input_len, cols |-> nodes,
                  at |-> Stored([q \in (0 .. (input_len - 1)) \X (0 .. (nodes - 1)) |->
                                   init[q]])],
     biases |-> [n |-> nodes, at |-> Stored([c \in 0 .. (nodes - 1) |-> Fin(0)])],
     last_input_shape |-> <<-1, -1, -1>>,
     last_input |-> NoVector,
     last_totals |-> NoVector]

(***************************************************************************)
(* softmax, cross_entropy_loss, forward, train                             *)
(***************************************************************************)
RECURSIVE Pow2(_)
Pow2(k) == IF k <= 0 THEN 1 ELSE 2 * Pow2(k - 1)

\* np.exp on the grid: exact at 0, monotone, halving with every whole unit
\* below 0 (base 2 standing for base e), and underflowing to exactly 0 once
\* the result is below half a quantum, as np.exp does below about -745
FExp(x) ==
    IF IsNaN(x) THEN NaN
    ELSE IF IsInf(x) THEN (IF x[2] = 1 THEN PosInf ELSE Fin(0))
    ELSE IF x[2] <= 0
    THEN (IF (-x[2]) \div Scale >= 20 THEN Fin(0)
          ELSE Fin(RoundDiv(Scale, Pow2((-x[2]) \div Scale))))
    ELSE IF x[2] \div Scale >= 20 THEN PosInf
    ELSE Fin(Scale * Pow2(x[2] \div Scale))

RECURSIVE Log2Grid(_)
Log2Grid(n) == IF n >= Scale THEN 0 ELSE Log2Grid(2 * n) - Scale

\* np.log on the grid: -inf at 0, NaN below 0, finite on positive values
FLog(x) ==
    IF IsNaN(x) THEN NaN
    ELSE IF IsInf(x) THEN (IF x[2] = 1 THEN PosInf ELSE NaN)
    ELSE IF x[2] = 0 THEN NegInf
    ELSE IF x[2] < 0 THEN NaN
    ELSE Fin(Log2Grid(x[2]))

\* softmax(x): exp_x = np.exp(x - np.max(x)); exp_x / exp_x.sum(axis=0)
Softmax(x) ==
    LET m == FAmax(x.at, x.n)
        exp_x == [c \in 0 .. (x.n - 1) |-> FExp(FSub(x.at[c], m))]
        total == FSum(exp_x, x.n)
    IN [n |-> x.n, at |-> Stored([c \in 0 .. (x.n - 1) |-> FDiv(exp_x[c], total)])]

\* Python indexing of a length-n axis: -n .. n-1 are the valid indices
ValidIndex(y, n) == -n <= y /\ y < n
PyIndex(y, n) == IF y < 0 THEN y + n ELSE y

\* cross_entropy_loss(output, y) for a valid index y
CrossEntropyLoss(output, y) == FNeg(FLog(output.at[PyIndex(y, output.n)]))

\* np.argmax: the first NaN if there is one, else the first largest value
ArgMax(v) ==
    IF \E c \in 0 .. (v.n - 1) : IsNaN(v.at[c])
    THEN CHOOSE c \in 0 .. (v.n - 1) :
           IsNaN(v.at[c]) /\ \A d \in 0 .. (c - 1) : ~IsNaN(v.at[d])
    ELSE CHOOSE c \in 0 .. (v.n - 1) :
           /\ \A d \in 0 .. (v.n - 1) : ~FLess(v.at[c], v.at[d])
           /\ \A d \in 0 .. (c - 1) : FLess(v.at[d], v.at[c])

\* (image / 255) - 0.5
Normalize(image) ==
    [image EXCEPT !.at = Stored([p \in DOMAIN image.at |->
                                   FSub(FDiv(image.at[p], Fin(255 * Scale)),
                                        Fin(RoundDiv(Scale, 2)))])]

\* forward(image, label) from out = softmax(totals) on: loss and acc
ForwardFromOut(cv1, pl1, dn1, out, label) ==
    IF ~ValidIndex(label, out.n)
    THEN [raised |-> TRUE, where |-> "cross_entropy_loss",
          conv |-> cv1, pool |-> pl1, dense |-> dn1]
    ELSE [raised |-> FALSE, where |-> "",
          conv |-> cv1, pool |-> pl1, dense |-> dn1,
          out |-> out,
          loss |-> CrossEntropyLoss(out, label),
          acc |-> IF ArgMax(out) = label THEN 1 ELSE 0]

\* forward(image, label) from the pooled array on: dense.forward, softmax
ForwardFromPool(cv1, pl1, dn, p_out, label) ==
    Only({ IF DenseForwardRaises(dn, p_out)
           THEN [raised |-> TRUE, where |-> "dense.forward",
                 conv |-> cv1, pool |-> pl1, dense |-> dn1]
           ELSE Only({ ForwardFromOut(cv1, pl1, dn1, out, label) :
                         out \in {Softmax(dn1.last_totals)} })
           : dn1 \in {DenseAfterForward(dn, p_out)} })

\* forward(image, label) from the convolved array on: pool.forward and the rest
ForwardFromConv(cv1, pl, dn, c_out, label) ==
    Only({ ForwardFromPool(cv1, [pl EXCEPT !.last_input = c_out], dn, p_out, label) :
             p_out \in {PoolForwardOut(pl, c_out)} })

\* forward(image, label) on the layers cv, pl, dn: the layers as the call
\* leaves them and, unless it raises, out, loss and acc
ForwardResult(cv, pl, dn, image, label) ==
    Only({ IF ConvForwardRaises(cv, x)
           THEN [raised |-> TRUE, where |-> "conv.forward",
                 conv |-> [cv EXCEPT !.last_input = x], pool |-> pl, dense |-> dn]
           ELSE Only({ ForwardFromConv([cv EXCEPT !.last_input = x], pl, dn, c_out, label) :
                         c_out \in {ConvForwardOut(cv, x)} })
           : x \in {Normalize(image)} })

\* a gradient that keeps the probability away from zero (at least one quantum)
TrainGradClipped(out, label) ==
    [n |-> NumClasses,
     at |-> Stored([c \in 0 .. (NumClasses - 1) |->
                      IF c = PyIndex(label, NumClasses)
                      THEN FDiv(Fin(-Scale),
                                FMax(out.at[PyIndex(label, out.n)], Fin(1)))
                      ELSE Fin(0)])]

\* grad = np.zeros(2); grad[label] = -1 / out[label]
TrainGrad(out, label) ==
    [n |-> NumClasses,
     at |-> Stored([c \in 0 .. (NumClasses - 1) |->
                      IF c = PyIndex(label, NumClasses)
                      THEN FDiv(Fin(-Scale), out.at[PyIndex(label, out.n)])
                      ELSE Fin(0)])]

\* train from the gradient of pool.backward on: conv.backward
TrainFromPoolGrad(fr, grad, db, g, lr) ==
    IF ConvBackwardRaises(fr.conv, g)
    THEN [raised |-> TRUE, where |-> "conv.backward",
          conv |-> fr.conv, pool |-> fr.pool, dense |-> db.self]
    ELSE [raised |-> FALSE, where |-> "",
          conv |-> ConvUpdated(fr.conv, g, lr),
          pool |-> fr.pool, dense |-> db.self,
          out |-> fr.out, loss |-> fr.loss, acc |-> fr.acc,
          grad |-> grad,
          dense_dw |-> [q \in DOMAIN fr.dense.weights.at |->
                          FMul(lr, DenseWeightGradient(fr.dense, grad)[q])],
          dense_db |-> [c \in 0 .. (NumClasses - 1) |->
                          FMul(lr, FMul(grad.at[c], Fin(Scale)))],
          conv_df |-> [q \in DOMAIN fr.conv.filters.at |->
                         FMul(lr, ConvFilterGradient(fr.conv, g)[q])]]

\* train from the result of dense.backward on: pool.backward, conv.backward
TrainFromDenseGrad(fr, grad, db, lr) ==
    IF db.raised
    THEN [raised |-> TRUE, where |-> "dense.backward",
          conv |-> fr.conv, pool |-> fr.pool, dense |-> db.self]
    ELSE IF PoolBackwardRaises(fr.pool, db.ret)
    THEN [raised |-> TRUE, where |-> "pool.backward",
          conv |-> fr.conv, pool |-> fr.pool, dense |-> db.self]
    ELSE Only({ TrainFromPoolGrad(fr, grad, db, g, lr) :
                  g \in {PoolBackwardOut(fr.pool, db.ret)} })

\* train from the result fr of forward on: grad, dense.backward and the rest
TrainFromForward(fr, label, lr) ==
    IF fr.raised THEN fr
    ELSE IF ~ValidIndex(label, NumClasses)
    THEN [raised |-> TRUE, where |-> "grad",
          conv |-> fr.conv, pool |-> fr.pool, dense |-> fr.dense]
    ELSE Only({ Only({ TrainFromDenseGrad(fr, grad, db, lr) :
                         db \in {DenseBackward(fr.dense, grad, lr)} })
                : grad \in {TrainGrad(fr.out, label)} })

\* train(im, label, lr) on the layers cv, pl, dn
TrainResult(cv, pl, dn, im, label, lr) ==
    Only({ TrainFromForward(fr, label, lr) :
             fr \in {ForwardResult(cv, pl, dn, im, label)} })

(***************************************************************************)
(* Test data: whole-number patterns; seed 0 is the all-ones array.         *)
(***************************************************************************)
PatternValue(seed, k) ==
    IF seed = 0 THEN Fin(Scale)
    ELSE Fin(Scale * ((((seed + 1) * k + (k \div 3) * seed + seed) % 5) - 2))

PatternArray(h, w, c, seed) ==
    [h |-> h, w |-> w, c |-> c,
     at |-> Stored([p \in Idx3(h, w, c) |->
                      PatternValue(seed, (p[1] * w + p[2]) * c + p[3])])]

Images == { PatternArray(h, w, c, s) :
              h \in 1 .. MaxH, w \in 1 .. MaxH, c \in 1 .. MaxChannels, s \in 0 .. MaxSeed }

NoCall == [op |-> "none", raised |-> FALSE]

ConvNone == [num_filters |-> 0, filter_size |-> 0, last_input |-> NoArray]
PoolNone == [pool_size |-> 1, last_input |-> NoArray]
DenseNone == [weights |-> <<>>, biases |-> <<>>]

PatternVector(n, seed) ==
    [n |-> n, at |-> Stored([k \in 0 .. (n - 1) |-> PatternValue(seed, k)])]

(***************************************************************************)
(* Conv2D.forward on its own.                                              *)
(***************************************************************************)
ConvInit ==
    /\ \E n \in 1 .. MaxFilters, fs \in 1 .. MaxFilterSize,
          fc \in 1 .. MaxChannels, s \in 0 .. 1 :
          conv = Conv2DInit(n, fs, fc,
                   [q \in (0 .. (n - 1)) \X (0 .. (fs - 1)) \X (0 .. (fs - 1))
                             \X (0 .. (fc - 1)) |->
                      PatternValue(s, ((q[1] * fs + q[2]) * fs + q[3]) * fc + q[4] + q[1])])
    /\ pool = PoolNone
    /\ dense = DenseNone
    /\ call = NoCall
    /\ ncalls = 0

ConvForward(image) ==
    /\ call.op = "none"
    /\ conv' = [conv EXCEPT !.last_input = image]
    /\ call' = IF ConvForwardRaises(conv, image)
               THEN [op |-> "conv.forward", raised |-> TRUE]
               ELSE [op |-> "conv.forward", raised |-> FALSE,
                     ret |-> ConvForwardOut(conv, image)]
    /\ UNCHANGED <<pool, dense, ncalls>>

ConvNext == \E image \in Images : ConvForward(image)

SpecConv == ConvInit /\ [][ConvNext]_vars

(***************************************************************************)
(* MaxPooling2D.forward followed by MaxPooling2D.backward.                 *)
(***************************************************************************)
PoolInputs == { PatternArray(h, w, c, s) :
                  h \in 1 .. MaxPoolH, w \in 1 .. MaxPoolH, c \in 1 .. 2, s \in 0 .. MaxSeed }

PoolInit ==
    /\ conv = ConvNone
    /\ \E P \in 1 .. MaxPool : pool = MaxPooling2DInit(P)
    /\ dense = DenseNone
    /\ call = NoCall
    /\ ncalls = 0

PoolForward(input) ==
    /\ call.op = "none"
    /\ pool' = [pool EXCEPT !.last_input = input]
    /\ call' = [op |-> "pool.forward", raised |-> FALSE,
                ret |-> PoolForwardOut(pool, input)]
    /\ UNCHANGED <<conv, dense, ncalls>>

PoolBackward(d_out) ==
    /\ call.op = "pool.forward"
    /\ call' = IF PoolBackwardRaises(pool, d_out)
               THEN [op |-> "pool.backward", raised |-> TRUE, arg |-> d_out]
               ELSE [op |-> "pool.backward", raised |-> FALSE, arg |-> d_out,
                     ret |-> PoolBackwardOut(pool, d_out)]
    /\ UNCHANGED <<conv, pool, dense, ncalls>>

PoolNext ==
    \/ \E input \in PoolInputs : PoolForward(input)
    \/ \E s \in 1 .. MaxSeed :
          PoolBackward(PatternArray(call.ret.h, call.ret.w, call.ret.c, s))

SpecPool == PoolInit /\ [][PoolNext]_vars

(***************************************************************************)
(* Dense.forward followed by Dense.backward, on a layer as constructed     *)
(* (zero biases) or as earlier training steps left it (any biases).        *)
(***************************************************************************)
DenseInputs == { PatternArray(h, w, c, s) :
                   h \in 1 .. 2, w \in 1 .. 2, c \in 1 .. 2, s \in 1 .. MaxSeed }

LearnRates == { Fin(Scale), Fin(2) }

DenseSpecInit ==
    /\ conv = ConvNone
    /\ pool = PoolNone
    /\ \E L \in 1 .. MaxDenseLen, nodes \in 1 .. MaxNodes, s \in 1 .. 2, bs \in 0 .. 1 :
          dense = [DenseInit(L, nodes,
                             [q \in (0 .. (L - 1)) \X (0 .. (nodes - 1)) |->
                                PatternValue(s, q[1] * nodes + q[2] + 1)])
                     EXCEPT !.biases.at = Stored([c \in 0 .. (nodes - 1) |->
                                                    IF bs = 0 THEN Fin(0)
                                                    ELSE PatternValue(bs, c + 2)])]
    /\ call = NoCall
    /\ ncalls = 0

DenseForwardCall(input) ==
    /\ call.op = "none"
    /\ dense' = DenseAfterForward(dense, input)
    /\ call' = IF DenseForwardRaises(dense, input)
               THEN [op |-> "dense.forward", raised |-> TRUE, arg |-> input]
               ELSE [op |-> "dense.forward", raised |-> FALSE, arg |-> input,
                     ret |-> DenseTotals(dense, Flatten(input))]
    /\ UNCHANGED <<conv, pool, ncalls>>

DenseBackwardCall(d_out, lr) ==
    /\ call.op = "dense.forward" /\ ~call.raised
    /\ \E r \in {DenseBackward(dense, d_out, lr)} :
          /\ dense' = r.self
          /\ call' = IF r.raised
                     THEN [op |-> "dense.backward", raised |-> TRUE,
                           arg |-> d_out, lr |-> lr]
                     ELSE [op |-> "dense.backward", raised |-> FALSE,
                           arg |-> d_out, lr |-> lr, ret |-> r.ret]
    /\ UNCHANGED <<conv, pool, ncalls>>

DenseNext ==
    \/ \E input \in DenseInputs : DenseForwardCall(input)
    \/ \E m \in 1 .. MaxNodes, s \in 1 .. MaxSeed, lr \in LearnRates :
          DenseBackwardCall(PatternVector(m, s), lr)

SpecDense == DenseSpecInit /\ [][DenseNext]_vars

(***************************************************************************)
(* The driver: conv, pool and dense as the notebook constructs them (for   *)
(* a small image side and filter count), then train and forward calls.  An *)
(* exception is not caught: a call that raises ends the run.               *)
(***************************************************************************)
PixelLevels == <<0, 64, 128, 255>>

RawImage(h, w, c, seed) ==
    [h |-> h, w |-> w, c |-> c,
     at |-> Stored([p \in Idx3(h, w, c) |->
                      Fin(Scale * PixelLevels[(((seed + 1) * ((p[1] * w + p[2]) * c + p[3])
                                                 + seed) % 4) + 1])])]

TrainImages ==
    { RawImage(ImgSide, ImgSide, IMG_CHANNELS, s) : s \in 0 .. 1 }
      \cup { RawImage(ImgSide, ImgSide, c, 1) : c \in 1 .. 2 }
      \cup { RawImage(1, ImgSide, IMG_CHANNELS, 1),
             RawImage(ImgSide + 2, ImgSide + 2, IMG_CHANNELS, 1) }

TrainRates == { Fin(Scale) }

\* Dense((IMG_HEIGHT - 2) // 2 * (IMG_WIDTH - 2) // 2 * 8, 2) for an image of
\* side ImgSide, filter size fs and nf filters
DenseInputLen(fs, nf) ==
    ((((ImgSide - fs + 1) \div PoolSize) * (ImgSide - fs + 1)) \div PoolSize) * nf

TrainInit ==
    \E nf \in 1 .. MaxTrainFilters, nodes \in 1 .. MaxNodes, s \in 1 .. 2 :
       /\ conv = Conv2DInit(nf, TrainFilterSize, IMG_CHANNELS,
                    [q \in (0 .. (nf - 1)) \X (0 .. (TrainFilterSize - 1))
                              \X (0 .. (TrainFilterSize - 1)) \X (0 .. (IMG_CHANNELS - 1)) |->
                       PatternValue(s, ((q[1] * TrainFilterSize + q[2]) * TrainFilterSize
                                          + q[3]) * IMG_CHANNELS + q[4] + q[1])])
       /\ pool = MaxPooling2DInit(PoolSize)
       /\ dense = DenseInit(DenseInputLen(TrainFilterSize, nf), nodes,
                     [q \in (0 .. (DenseInputLen(TrainFilterSize, nf) - 1))
                               \X (0 .. (nodes - 1)) |->
                        PatternValue(s, 2 * q[1] + q[2] + s)])
       /\ call = NoCall
       /\ ncalls = 0

Train(im, label, lr) ==
    /\ ~call.raised
    /\ ncalls < MaxCalls
    /\ \E r \in {TrainResult(conv, pool, dense, im, label, lr)} :
          /\ conv' = r.conv
          /\ pool' = r.pool
          /\ dense' = r.dense
          /\ call' = IF r.raised
                     THEN [op |-> "train", raised |-> TRUE, where |-> r.where,
                           label |-> label, lr |-> lr]
                     ELSE [op |-> "train", raised |-> FALSE, where |-> "",
                           label |-> label, lr |-> lr,
                           out |-> r.out, loss |-> r.loss, acc |-> r.acc,
                           grad |-> r.grad, dense_dw |-> r.dense_dw,
                           dense_db |-> r.dense_db, conv_df |-> r.conv_df]
    /\ ncalls' = ncalls + 1

Forward(image, label) ==
    /\ ~call.raised
    /\ ncalls < MaxCalls
    /\ \E r \in {ForwardResult(conv, pool, dense, image, label)} :
          /\ conv' = r.conv
          /\ pool' = r.pool
          /\ dense' = r.dense
          /\ call' = IF r.raised
                     THEN [op |-> "forward", raised |-> TRUE, where |-> r.where,
                           label |-> label]
                     ELSE [op |-> "forward", raised |-> FALSE, where |-> "",
                           label |-> label,
                           out |-> r.out, loss |-> r.loss, acc |-> r.acc]
    /\ ncalls' = ncalls + 1

TrainNext ==
    \/ \E im \in TrainImages, label \in 0 .. MaxLabel, lr \in TrainRates :
          Train(im, label, lr)
    \/ \E im \in TrainImages, label \in 0 .. MaxLabel : Forward(im, label)

SpecTrain == TrainInit /\ [][TrainNext]_vars

(***************************************************************************)
(* Helpers of the properties: exact integer sums and maxima.               *)
(***************************************************************************)
RECURSIVE IntSum(_)
IntSum(fn) ==
    IF DOMAIN fn = {} THEN 0
    ELSE LET x == CHOOSE x \in DOMAIN fn : TRUE
         IN fn[x] + IntSum([y \in (DOMAIN fn) \ {x} |-> fn[y]])

ConvReturned == call.op = "conv.forward" /\ ~call.raised
ConvImage == conv.last_input
ConvF == conv.filter_size

\* the cross-correlation of the claim, written over the window's index set
CrossCorrelation(i, j, f) ==
    IntSum([q \in (0 .. (ConvF - 1)) \X (0 .. (ConvF - 1)) \X (0 .. (ConvImage.c - 1)) |->
              RoundDiv(ConvImage.at[<<i + q[1], j + q[2], q[3]>>][2]
                         * conv.filters.at[<<f, q[1], q[2], q[3]>>][2], Scale)])

AllOnesCase ==
    /\ ConvImage = PatternArray(4, 4, 1, 0)
    /\ conv.num_filters = 1 /\ ConvF = 2 /\ conv.filters.c = 1
    /\ \A q \in DOMAIN conv.filters.at : conv.filters.at[q] = Fin(Scale)

\* C1: Conv2D.forward on an (H, W, C) image with C the filters' channel count
\* and F <= min(H, W) returns an array of shape (H-F+1, W-F+1, num_filters)
\* whose element (i, j, f) is the sum over the F x F x C window at (i, j) of
\* image * filters[f] (stride 1, no padding, no flip); an all-ones 4x4x1 image
\* with one all-ones 2x2 filter gives 4 everywhere.
C1_ConvForwardIsCrossCorrelation ==
    (/\ call.op = "conv.forward"
     /\ ConvImage.c = conv.filters.c
     /\ ConvF <= ConvImage.h /\ ConvF <= ConvImage.w)
    => /\ ~call.raised
       /\ call.ret.h = ConvImage.h - ConvF + 1
       /\ call.ret.w = ConvImage.w - ConvF + 1
       /\ call.ret.c = conv.num_filters
       /\ DOMAIN call.ret.at = Idx3(ConvImage.h - ConvF + 1, ConvImage.w - ConvF + 1,
                                    conv.num_filters)
       /\ \A p \in DOMAIN call.ret.at :
             call.ret.at[p] = Fin(CrossCorrelation(p[1], p[2], p[3]))
       /\ AllOnesCase => \A p \in DOMAIN call.ret.at : call.ret.at[p] = Fin(4 * Scale)

C1_Witness ==
    /\ ConvReturned
    /\ ConvImage.c = 3 /\ conv.filters.c = 3 /\ ConvF = 2 /\ conv.num_filters = 2
    /\ ConvImage.h = 3 /\ ConvImage.w = 4
    /\ \E p, q \in DOMAIN call.ret.at :
          call.ret.at[p] # call.ret.at[q] /\ call.ret.at[p] # Fin(0)

\* C6 (as claimed): Conv2D.forward on an image whose channel count differs
\* from the filter bank's IMG_CHANNELS channels raises an error, also for a
\* single-channel image, and never returns an output.
C6_ChannelMismatchRaises ==
    (/\ call.op = "conv.forward"
     /\ conv.filters.c = IMG_CHANNELS
     /\ ConvImage.c # IMG_CHANNELS
     /\ ConvF <= ConvImage.h /\ ConvF <= ConvImage.w)
    => call.raised

\* C7 (as claimed): a filter larger than the image is rejected by forward;
\* no empty array is returned.
C7_OversizedFilterRejected ==
    (call.op = "conv.forward" /\ (ConvF > ConvImage.h \/ ConvF > ConvImage.w))
    => call.raised

\* C8 (as claimed): with F > H or F > W forward does not raise and returns a
\* zero-sized array, also when H - F + 1 is negative.
C8_OversizedFilterGivesEmpty ==
    (call.op = "conv.forward" /\ (ConvF > ConvImage.h \/ ConvF > ConvImage.w))
    => (~call.raised /\ Size3(call.ret) = 0)

\* C8 (amended): with F > H or F > W, forward returns a zero-sized array
\* without raising exactly when F <= H + 1 and F <= W + 1 (an output dimension
\* of 0, no window enumerated); when F >= H + 2 or F >= W + 2 the negative
\* output dimension makes forward raise.
C8_EmptyOnlyAtZeroDimension ==
    (call.op = "conv.forward" /\ (ConvF > ConvImage.h \/ ConvF > ConvImage.w))
    => IF ConvF <= ConvImage.h + 1 /\ ConvF <= ConvImage.w + 1
       THEN /\ ~call.raised
            /\ Size3(call.ret) = 0
            /\ DOMAIN call.ret.at = {}
            /\ ConvRegions(ConvF, ConvImage) = {}
       ELSE call.raised

C8_Witness ==
    /\ ConvReturned
    /\ ConvF = ConvImage.h + 1 /\ ConvF <= ConvImage.w
    /\ call.ret.h = 0 /\ call.ret.w > 0

(***************************************************************************)
(* MaxPooling2D properties.                                                *)
(***************************************************************************)
PoolX == pool.last_input
PoolP == pool.pool_size

\* the positions of pooling window (i, j)
Window(i, j) ==
    ((i * PoolP) .. (i * PoolP + PoolP - 1)) \X ((j * PoolP) .. (j * PoolP + PoolP - 1))

\* x[r, c, n] is a largest value of window (i, j) in channel n
IsWindowMax(r, c, n, i, j) ==
    \A q \in Window(i, j) : PoolX.at[<<q[1], q[2], n>>][2] <= PoolX.at[<<r, c, n>>][2]

\* C2: MaxPooling2D.forward on an (H, W, N) input returns shape
\* (H div P, W div P, N); element [i, j, n] is the maximum of
\* input[i*P .. i*P+P-1, j*P .. j*P+P-1, n], per channel, so the trailing
\* H mod P rows and W mod P columns play no part (5x5 with P = 2 gives 2x2).
C2_PoolForwardIsWindowMax ==
    call.op = "pool.forward"
    => /\ ~call.raised
       /\ call.ret.h = PoolX.h \div PoolP
       /\ call.ret.w = PoolX.w \div PoolP
       /\ call.ret.c = PoolX.c
       /\ DOMAIN call.ret.at = Idx3(PoolX.h \div PoolP, PoolX.w \div PoolP, PoolX.c)
       /\ \A p \in DOMAIN call.ret.at :
             /\ IsFin(call.ret.at[p])
             /\ \E q \in Window(p[1], p[2]) :
                   /\ call.ret.at[p] = PoolX.at[<<q[1], q[2], p[3]>>]
                   /\ IsWindowMax(q[1], q[2], p[3], p[1], p[2])
       /\ (PoolX.h = 5 /\ PoolX.w = 5 /\ PoolP = 2)
             => (call.ret.h = 2 /\ call.ret.w = 2)

C2_Witness ==
    /\ call.op = "pool.forward"
    /\ PoolX.h = 5 /\ PoolX.w = 5 /\ PoolP = 2 /\ PoolX.c = 2
    /\ call.ret.h = 2 /\ call.ret.w = 2
    /\ \E p, q \in DOMAIN call.ret.at : call.ret.at[p] # call.ret.at[q]
    \* the dropped row holds a value larger than an output of its channel
    /\ \E r \in DOMAIN PoolX.at, p \in DOMAIN call.ret.at :
          r[1] = 4 /\ r[3] = p[3] /\ call.ret.at[p][2] < PoolX.at[r][2]

\* the number of largest values of window (i, j) in channel n
MaxCount(i, j, n) ==
    Cardinality({q \in Window(i, j) : IsWindowMax(q[1], q[2], n, i, j)})

\* C3: MaxPooling2D.backward(d_out) after forward(x) returns an array of the
\* shape of x holding d_out[r div P, c div P, n] at every position (r, c, n)
\* inside a window whose value equals the window's maximum of channel n, and
\* 0 elsewhere, the dropped rows and columns included; tied positions all get
\* the same d_out value; a unique maximum leaves one eligible position.
C3_PoolBackwardRoutesToMax ==
    (call.op = "pool.backward" /\ ~call.raised)
    => /\ call.ret.h = PoolX.h /\ call.ret.w = PoolX.w /\ call.ret.c = PoolX.c
       /\ DOMAIN call.ret.at = Idx3(PoolX.h, PoolX.w, PoolX.c)
       /\ \A p \in DOMAIN call.ret.at :
             LET i == p[1] \div PoolP
                 j == p[2] \div PoolP
             IN call.ret.at[p] =
                  IF /\ p[1] < (PoolX.h \div PoolP) * PoolP
                     /\ p[2] < (PoolX.w \div PoolP) * PoolP
                     /\ IsWindowMax(p[1], p[2], p[3], i, j)
                  THEN call.arg.at[<<i, j, p[3]>>]
                  ELSE Fin(0)
       /\ \A w \in Idx3(PoolX.h \div PoolP, PoolX.w \div PoolP, PoolX.c) :
             MaxCount(w[1], w[2], w[3]) = 1
             => Cardinality({q \in Window(w[1], w[2]) :
                               call.ret.at[<<q[1], q[2], w[3]>>] # Fin(0)}) <= 1

\* a tie inside a window with a non-zero gradient, next to a dropped row
C3_Witness ==
    /\ call.op = "pool.backward" /\ ~call.raised
    /\ PoolX.h % PoolP # 0
    /\ \E w \in Idx3(PoolX.h \div PoolP, PoolX.w \div PoolP, PoolX.c) :
          /\ MaxCount(w[1], w[2], w[3]) >= 2
          /\ call.arg.at[w] # Fin(0)
          /\ Cardinality({q \in Window(w[1], w[2]) :
                            call.ret.at[<<q[1], q[2], w[3]>>] = call.arg.at[w]}) >= 2
    /\ \E w \in Idx3(PoolX.h \div PoolP, PoolX.w \div PoolP, PoolX.c) :
          MaxCount(w[1], w[2], w[3]) = 1 /\ call.arg.at[w] # Fin(0)

(***************************************************************************)
(* Dense properties.                                                       *)
(***************************************************************************)
\* the product of two grid values, rounded to the grid as FMul rounds it
Times(a, b) == RoundDiv(a * b, Scale)

\* flat[k] for the row-major position k of x[i, j, ch]
FlatOf(x, flat) ==
    /\ flat.n = x.h * x.w * x.c
    /\ \A p \in DOMAIN x.at : flat.at[(p[1] * x.w + p[2]) * x.c + p[3]] = x.at[p]

\* C4: Dense.forward(x) returns totals[c] = sum_k flatten(x)[k] * weights[k, c]
\* + biases[c] and changes neither weights nor biases; the following
\* backward(d_out, lr) sets weights[k, c] to its old value minus
\* lr * flatten(x)[k] * d_out[c] and biases[c] to its old value minus
\* lr * d_out[c], x being the input of the most recent forward.
C4_DenseForwardBackward ==
    [][/\ (call'.op = "dense.forward" /\ ~call'.raised)
          => /\ call'.ret.n = dense.weights.cols
             /\ \A c \in 0 .. (dense.weights.cols - 1) :
                   call'.ret.at[c] =
                     Fin(IntSum([k \in 0 .. (dense.weights.rows - 1) |->
                                   Times(dense'.last_input.at[k][2],
                                         dense.weights.at[<<k, c>>][2])])
                         + dense.biases.at[c][2])
             /\ FlatOf(call'.arg, dense'.last_input)
             /\ dense'.weights = dense.weights
             /\ dense'.biases = dense.biases
       /\ (call'.op = "dense.backward" /\ ~call'.raised)
          => /\ dense'.last_input = dense.last_input
             /\ FlatOf(call.arg, dense.last_input)
             /\ dense'.weights.rows = dense.weights.rows
             /\ dense'.weights.cols = dense.weights.cols
             /\ \A k \in 0 .. (dense.weights.rows - 1), c \in 0 .. (dense.weights.cols - 1) :
                   dense'.weights.at[<<k, c>>] =
                     Fin(dense.weights.at[<<k, c>>][2]
                         - Times(call'.lr[2], Times(dense.last_input.at[k][2],
                                                    call'.arg.at[c][2])))
             /\ \A c \in 0 .. (dense.weights.cols - 1) :
                   dense'.biases.at[c] =
                     Fin(dense.biases.at[c][2] - Times(call'.lr[2], call'.arg.at[c][2]))
      ]_vars

C4_Witness ==
    /\ call.op = "dense.backward" /\ ~call.raised
    /\ dense.weights.rows = 4 /\ dense.weights.cols = 2
    /\ dense.last_input_shape = <<2, 2, 1>>
    /\ \E k \in 0 .. 3, c \in 0 .. 1 :
          dense.last_input.at[k] # Fin(0) /\ call.arg.at[c] # Fin(0)
    /\ dense.biases.at[0] # dense.biases.at[1]
    /\ dense.last_totals.at[0] # dense.last_totals.at[1]

\* C10: the gradient Dense.backward(d_out, lr) returns is weights_before . d_out
\* reshaped to the shape of the most recent forward input, weights_before
\* being the weights when backward was called; the in-place update of the
\* same call does not affect it.
C10_InputGradientUsesOldWeights ==
    [][(call'.op = "dense.backward" /\ ~call'.raised)
       => /\ <<call'.ret.h, call'.ret.w, call'.ret.c>> = <<call.arg.h, call.arg.w, call.arg.c>>
          /\ DOMAIN call'.ret.at = DOMAIN call.arg.at
          /\ \A p \in DOMAIN call'.ret.at :
                call'.ret.at[p] =
                  Fin(IntSum([c \in 0 .. (dense.weights.cols - 1) |->
                                Times(dense.weights.at[<<(p[1] * call.arg.w + p[2]) * call.arg.c
                                                          + p[3], c>>][2],
                                      call'.arg.at[c][2])]))
      ]_vars

\* a backward whose update changed a weight that the returned gradient read
C10_Witness ==
    /\ call.op = "dense.backward" /\ ~call.raised
    /\ dense.last_input_shape = <<2, 1, 2>>
    /\ \E p \in DOMAIN call.ret.at :
          /\ call.ret.at[p] # Fin(0)
          /\ call.ret.at[p] #
               DenseInputGradient(dense.weights, call.arg).at[(p[1] * 1 + p[2]) * 2 + p[3]]

(***************************************************************************)
(* train and forward: failing calls and the zero-probability case.         *)
(***************************************************************************)
TrainStep == call'.op = "train" /\ ncalls' = ncalls + 1

\* C5: a train call that ends in an error (image shape, dense input length,
\* label index, dense class count against the length-2 gradient) raised it
\* before any parameter mutation: conv.filters, dense.weights and
\* dense.biases are what they were before the call.
C5_FailedTrainMutatesNothing ==
    [][(TrainStep /\ call'.raised)
       => /\ conv'.filters = conv.filters
          /\ dense'.weights = dense.weights
          /\ dense'.biases = dense.biases
      ]_vars

\* a train call that went through forward and the gradient and raised in
\* dense.backward, the layer that mutates first
C5_Witness ==
    /\ call.op = "train" /\ call.raised
    /\ call.where = "dense.backward"
    /\ dense.last_totals # NoVector
    /\ dense.weights.cols # NumClasses

AllFinite(at) == \A q \in DOMAIN at : IsFin(at[q])
NoneFinite(at) == \A q \in DOMAIN at : ~IsFin(at[q])

ParamsFinite ==
    /\ AllFinite(conv.filters.at)
    /\ AllFinite(dense.weights.at)
    /\ AllFinite(dense.biases.at)

TrueClass == PyIndex(call.label, NumClasses)

\* the last call was a completed train whose true-class probability was 0
ZeroProbability ==
    /\ call.op = "train" /\ ~call.raised
    /\ call.out.at[TrueClass] = Fin(0)

Completed == call.op \in {"train", "forward"} /\ ~call.raised

\* C9 as stated: in a train call with true-class probability exactly zero the
\* loss, the gradient entry at the label and every entry of the dense weight
\* update, the dense bias update and the filter update are non-finite; and
\* from then on the parameters are never all finite and no loss is finite.
C9_EveryUpdateNonFinite ==
    [][/\ ZeroProbability'
          => /\ ~IsFin(call'.loss)
             /\ ~IsFin(call'.grad.at[TrueClass'])
             /\ NoneFinite(call'.dense_dw)
             /\ NoneFinite(call'.dense_db)
             /\ NoneFinite(call'.conv_df)
       /\ ~ParamsFinite
          => /\ ~ParamsFinite'
             /\ Completed' => ~IsFin(call'.loss)
      ]_vars

\* C9, amended: in a train call with true-class probability exactly zero the
\* loss is +inf and the gradient entry at the label is -inf; the dense weight
\* update is non-finite in the column of the label and exactly zero in the
\* other column, the dense bias update is -inf at the label and zero at the
\* other class, and every entry of the filter update is non-finite; the call
\* leaves every filter entry, the label's weight column and the label's bias
\* non-finite.  The corruption is permanent: once a parameter is non-finite
\* the parameters are never all finite again and every later completed call
\* has a non-finite loss; and parameters only ever become non-finite in such
\* a call.
C9_LabelColumnNonFinite ==
    [][/\ ZeroProbability'
          => /\ call'.loss = PosInf
             /\ call'.grad.at[TrueClass'] = NegInf
             /\ \A q \in DOMAIN call'.dense_dw :
                   IF q[2] = TrueClass' THEN ~IsFin(call'.dense_dw[q])
                   ELSE call'.dense_dw[q] = Fin(0)
             /\ \A c \in DOMAIN call'.dense_db :
                   IF c = TrueClass' THEN ~IsFin(call'.dense_db[c])
                   ELSE call'.dense_db[c] = Fin(0)
             /\ NoneFinite(call'.conv_df)
             /\ NoneFinite(conv'.filters.at)
             /\ \A q \in DOMAIN dense'.weights.at :
                   q[2] = TrueClass' => ~IsFin(dense'.weights.at[q])
             /\ ~IsFin(dense'.biases.at[TrueClass'])
       /\ ~ParamsFinite
          => /\ ~ParamsFinite'
             /\ Completed' => ~IsFin(call'.loss)
       /\ (ParamsFinite /\ ~ParamsFinite') => ZeroProbability'
      ]_vars

\* a completed call on a model that an earlier zero-probability train call
\* corrupted: the loss is NaN and the other class's bias is still finite
C9_Witness ==
    /\ ncalls >= 2
    /\ Completed
    /\ IsNaN(call.loss)
    /\ ~ParamsFinite
    /\ \E c \in DOMAIN dense.biases.at : IsFin(dense.biases.at[c])

====
